---- MODULE Spec2Model ----
(***************************************************************************)
(* A model of gtFrame: 2d frames of reference nested in a tree under the   *)
(* root frame origin2d, the path search between two frames and the         *)
(* transformation of a vector along such a path.                           *)
(*                                                                         *)
(* Numbers.  The program computes with float64.  The model computes with   *)
(* integers: an angle is a whole number of quarter turns (k stands for     *)
(* k * pi / 2), so the entries of every rotation matrix are -1, 0 or 1, and *)
(* positions and vectors have integer components.  Equality in the model   *)
(* therefore stands for the program's equality up to rounding (the tests   *)
(* compare with numpy.allclose).                                           *)
(*                                                                         *)
(* Objects.  A frame is an identity 1..MaxFrames given in order of         *)
(* construction; origin2d is 0.  Every frame owns its own Rotation2d.      *)
(***************************************************************************)
EXTENDS Integers, Sequences, FiniteSets, TLC

VARIABLES frames, _parent, position, rotation, call, walk, caller

vars == <<frames, _parent, position, rotation, call, walk, caller>>

(* The number of Frame2d objects a run constructs. *)
MaxFrames == 3

(* The number of parent links one call of find_transform_path is followed  *)
(* over: more than any walk in a tree of MaxFrames frames takes, and the   *)
(* point at which a walk that goes round a cycle of parents is left alone. *)
MaxSteps == 6

(* The module variable origin2d, the one RootFrame2d. *)
origin2d == 0

(* Arguments of the constructor, of the attribute assignment and of update. *)
PositionInputs == {<<1, 2>>, <<-2, 1>>}

AngleInputs == {0, 1}

(* Arrays of another shape than (2,), as the constructor may be handed. *)
MisshapenInputs == {<<1, 2, 3>>}

(* Vectors handed to the transformations.  Every transformation here is a   *)
(* composition of rotations and translations, and two of those that agree   *)
(* on two distinct points agree everywhere.                                 *)
VectorInputs == {<<1, 0>>, <<2, 3>>}

(* Python's None, the value of a function body that returns nothing. *)
None == <<"None">>

(* The exception the constructor raises. *)
ValueError == <<"ValueError">>

(* numpy.ndarray.shape of a one-dimensional array *)
shape(array) == <<Len(array)>>

(* ---------------------------------------------------------------------- *)
(* numpy                                                                  *)
(* ---------------------------------------------------------------------- *)

(* math.cos and math.sin of a whole number of quarter turns. *)
cos(angle) == CASE angle % 4 = 0 -> 1
                [] angle % 4 = 1 -> 0
                [] angle % 4 = 2 -> -1
                [] OTHER -> 0

sin(angle) == CASE angle % 4 = 0 -> 0
                [] angle % 4 = 1 -> 1
                [] angle % 4 = 2 -> 0
                [] OTHER -> -1

(* matrix @ vector *)
matmul(matrix, vector) ==
    << matrix[1][1] * vector[1] + matrix[1][2] * vector[2],
       matrix[2][1] * vector[1] + matrix[2][2] * vector[2] >>

(* vector + other and vector - other, by component *)
add(vector, other) == << vector[1] + other[1], vector[2] + other[2] >>

sub(vector, other) == << vector[1] - other[1], vector[2] - other[2] >>

(* matrix.T *)
transpose(matrix) ==
    << << matrix[1][1], matrix[2][1] >>, << matrix[1][2], matrix[2][2] >> >>

(* ---------------------------------------------------------------------- *)
(* gtFrame.rotation                                                       *)
(* ---------------------------------------------------------------------- *)

(* The matrix both the constructor and update build from an angle. *)
rotation_matrix(angle) ==
    << << cos(angle), - sin(angle) >>, << sin(angle), cos(angle) >> >>

(* Rotation2d(angle) *)
Rotation2d(angle) == [_angle |-> angle, _matrix |-> rotation_matrix(angle)]

(* Rotation2d.apply *)
apply(rot, vector) == matmul(rot._matrix, vector)

(* The caller's array after Rotation2d.apply: apply works on vector.copy()  *)
(* and the product is a new array.                                          *)
apply_argument(rot, vector) ==
    LET copy == vector
        product == matmul(rot._matrix, copy)
    IN  vector

(* The caller's array after Rotation2d.apply_inverse, which must not change *)
(* its input.                                                               *)
apply_inverse_argument(rot, vector) == vector

(* Rotation2d.apply_inverse: the transposed matrix applied to the vector. *)
apply_inverse(rot, vector) == matmul(transpose(rot._matrix), vector)

(* Rotation2d.as_rad and Rotation2d.as_matrix *)
as_rad(rot) == rot._angle

as_matrix(rot) == rot._matrix

(* Rotation2d.update that stores the angle and keeps the old matrix. *)
update_keeps_matrix(rot, angle) == [rot EXCEPT !._angle = angle]

(* Rotation2d.update, as the new value of the object *)
update(rot, angle) == [rot EXCEPT !._angle = angle,
                                  !._matrix = rotation_matrix(angle)]

(* ---------------------------------------------------------------------- *)
(* gtFrame.basic                                                          *)
(* ---------------------------------------------------------------------- *)

(* Frame2d.parent *)
parent(self) == _parent[self]

(* transform_to_parent with the position subtracted instead of added. *)
transform_to_parent_minus(self, vector) ==
    sub(apply(rotation[self], vector), position[self])

(* transform_to_parent with the translation before the rotation. *)
transform_to_parent_translate_first(self, vector) ==
    apply(rotation[self], add(vector, position[self]))

(* Frame2d.transform_to_parent *)
transform_to_parent(self, vector) ==
    LET rotated_vector == apply(rotation[self], vector)
    IN  add(rotated_vector, position[self])

(* transform_from_parent with the inverse rotation before the translation. *)
transform_from_parent_rotate_first(self, vector) ==
    sub(apply_inverse(rotation[self], vector), position[self])

(* Frame2d.transform_from_parent *)
transform_from_parent(self, vector) ==
    LET relative_vector == sub(vector, position[self])
    IN  apply_inverse(rotation[self], relative_vector)

(* The caller's array after transform_to_parent: it is handed to apply, and *)
(* the sum with the position is a new array.                                *)
transform_to_parent_argument(self, vector) ==
    apply_argument(rotation[self], vector)

(* The caller's array after a transform_from_parent that subtracts in      *)
(* place (vector -= self.position).                                        *)
transform_from_parent_argument_in_place(self, vector) ==
    sub(vector, position[self])

(* The caller's array after transform_from_parent: the difference is a new *)
(* array, relative_vector, and only that is handed on.                     *)
transform_from_parent_argument(self, vector) ==
    LET relative_vector == sub(vector, position[self])
        after == apply_inverse_argument(rotation[self], relative_vector)
    IN  vector

(* The first loop with the test for the destination after the append: the *)
(* destination itself gets into the list.                                 *)
RECURSIVE walk_self_append_first(_, _, _)
walk_self_append_first(current_frame, frame, self_to_origin) ==
    IF current_frame = origin2d
    THEN [returned |-> FALSE, list |-> self_to_origin]
    ELSE IF current_frame = frame
         THEN [returned |-> TRUE,
               list |-> Append(self_to_origin, <<current_frame, "to">>)]
         ELSE walk_self_append_first(
                  _parent[current_frame], frame,
                  Append(self_to_origin, <<current_frame, "to">>))

(* The first loop of find_transform_path: from self towards origin2d.  The *)
(* loop ends at origin2d or returns the list as soon as it meets frame.    *)
RECURSIVE walk_self(_, _, _)
walk_self(current_frame, frame, self_to_origin) ==
    IF current_frame = origin2d
    THEN [returned |-> FALSE, list |-> self_to_origin]
    ELSE IF current_frame = frame
         THEN [returned |-> TRUE, list |-> self_to_origin]
         ELSE walk_self(parent(current_frame), frame,
                        Append(self_to_origin, <<current_frame, "to">>))

(* The second loop of find_transform_path: from frame towards origin2d. *)
RECURSIVE walk_frame(_, _, _)
walk_frame(current_frame, self, frame_to_origin) ==
    IF current_frame = origin2d
    THEN [returned |-> FALSE, list |-> frame_to_origin]
    ELSE IF current_frame = self
         THEN [returned |-> TRUE, list |-> frame_to_origin]
         ELSE walk_frame(parent(current_frame), self,
                         Append(frame_to_origin, <<current_frame, "from">>))

(* list[:]: the list as it was built, first element first. *)
unreversed(list) == list

(* list[::-1] *)
reversed(list) == [i \in 1..Len(list) |-> list[Len(list) + 1 - i]]

(* find_transform_path with the last line joining the two lists as they   *)
(* were built, the second one not inverted.                               *)
find_transform_path_join_uninverted(self, frame) ==
    LET first == walk_self(self, frame, <<>>)
        second == walk_frame(frame, self, <<>>)
    IN  IF first.returned
        THEN first.list
        ELSE IF second.returned
             THEN reversed(second.list)
             ELSE first.list \o second.list

(* find_transform_path with the early return of the second loop giving    *)
(* the list as it was built, not inverted.                                *)
find_transform_path_return_uninverted(self, frame) ==
    LET first == walk_self(self, frame, <<>>)
        second == walk_frame(frame, self, <<>>)
    IN  IF first.returned
        THEN first.list
        ELSE IF second.returned
             THEN second.list
             ELSE first.list \o reversed(second.list)

(* find_transform_path without the two early returns: every path runs up  *)
(* to origin2d and down again.                                            *)
find_transform_path_always_via_root(self, frame) ==
    LET first == walk_self(self, origin2d, <<>>)
        second == walk_frame(frame, origin2d, <<>>)
    IN  first.list \o reversed(second.list)

(* Frame2d.find_transform_path *)
find_transform_path(self, frame) ==
    LET first == walk_self(self, frame, <<>>)
        second == walk_frame(frame, self, <<>>)
    IN  IF first.returned
        THEN first.list
        ELSE IF second.returned
             THEN reversed(second.list)
             ELSE first.list \o reversed(second.list)

(* transform_via_path taking the steps from the end of the path. *)
RECURSIVE transform_via_path_backwards(_, _)
transform_via_path_backwards(vector, path) ==
    IF path = <<>>
    THEN vector
    ELSE LET step == path[Len(path)]
         IN  transform_via_path_backwards(
                 IF step[2] = "to"
                 THEN transform_to_parent(step[1], vector)
                 ELSE transform_from_parent(step[1], vector),
                 SubSeq(path, 1, Len(path) - 1))

(* Frame2d.transform_via_path: one step per element, in the path's order. *)
RECURSIVE transform_via_path(_, _)
transform_via_path(vector, path) ==
    IF path = <<>>
    THEN vector
    ELSE LET step == Head(path)
         IN  transform_via_path(
                 IF step[2] = "to"
                 THEN transform_to_parent(step[1], vector)
                 ELSE transform_from_parent(step[1], vector),
                 Tail(path))

(* The caller's array after transform_via_path: every step gives a new     *)
(* vector and none writes to the one it was given.                         *)
transform_via_path_argument(vector, path) ==
    IF path = <<>>
    THEN vector
    ELSE LET step == Head(path)
         IN  IF step[2] = "to"
             THEN transform_to_parent_argument(step[1], vector)
             ELSE transform_from_parent_argument(step[1], vector)

(* The caller's array after transform_to. *)
transform_to_argument(self, frame, vector) ==
    transform_via_path_argument(vector, find_transform_path(self, frame))

(* The caller's array after transform_from, whose body does nothing. *)
transform_from_argument(self, frame, vector) == vector

(* transform_to with the path searched from the destination to self. *)
transform_to_swapped(self, frame, vector) ==
    transform_via_path(vector, find_transform_path(frame, self))

(* Frame2d.transform_to *)
transform_to(self, frame, vector) ==
    transform_via_path(vector, find_transform_path(self, frame))

(* Frame2d.transform_from: the body is "pass". *)
transform_from(self, frame, vector) == None

(* ---------------------------------------------------------------------- *)
(* The state machine: a single thread that constructs frames, assigns to  *)
(* their attributes and calls their methods, one statement after another. *)
(* call holds the call that has just returned, with its arguments, its    *)
(* returned value (ret) and what the array the caller handed in holds     *)
(* after the call (arg), until the caller goes on.                        *)
(* ---------------------------------------------------------------------- *)

NoCall == [op |-> "none", self |-> origin2d, frame |-> origin2d,
           vector |-> <<>>, path |-> <<>>, ret |-> <<>>, arg |-> <<>>]

(* No call is being followed step by step. *)
NoWalk == [pc |-> "idle", self |-> origin2d, frame |-> origin2d,
           current_frame |-> origin2d, self_to_origin |-> <<>>,
           frame_to_origin |-> <<>>, links |-> 0, path |-> <<>>,
           vector |-> <<>>, steps |-> 0]

(* The caller holds no array of its own. *)
NoArray == [array |-> <<>>, shared_with |-> {}]

(* After import: origin2d exists, with position [0, 0] and Rotation2d(0). *)
Init ==
    /\ frames = {}
    /\ _parent = [f \in {} |-> origin2d]
    /\ position = (origin2d :> <<0, 0>>)
    /\ rotation = (origin2d :> Rotation2d(0))
    /\ call = NoCall
    /\ walk = NoWalk
    /\ caller = NoArray

(* Frame2d(position, Rotation2d(angle), parent_frame): a position of      *)
(* another shape than (2,) raises ValueError and no frame comes to be.    *)
NewFrame(pos, angle, parent_frame) ==
    LET self == Cardinality(frames) + 1
    IN  /\ call = NoCall
        /\ walk = NoWalk
        /\ Cardinality(frames) < MaxFrames
        /\ UNCHANGED <<walk, caller>>
        /\ IF shape(pos) # <<2>>
           THEN /\ call' = [op |-> "Frame2d", self |-> origin2d,
                            frame |-> parent_frame, vector |-> pos,
                            path |-> <<>>, ret |-> ValueError, arg |-> pos]
                /\ UNCHANGED <<frames, _parent, position, rotation>>
           ELSE /\ frames' = frames \cup {self}
                /\ _parent' = (self :> parent_frame) @@ _parent
                /\ position' = (self :> pos) @@ position
                /\ rotation' = (self :> Rotation2d(angle)) @@ rotation
                /\ UNCHANGED call

(* frame.position = pos *)
SetPosition(self, pos) ==
    /\ call = NoCall
    /\ walk = NoWalk
    /\ UNCHANGED <<walk, caller>>
    /\ position' = [position EXCEPT ![self] = pos]
    /\ UNCHANGED <<frames, _parent, rotation, call>>

(* frame.rotation.update(angle) *)
RotationUpdate(self, angle) ==
    /\ call = NoCall
    /\ walk = NoWalk
    /\ UNCHANGED <<walk, caller>>
    /\ rotation' = [rotation EXCEPT ![self] = update(rotation[self], angle)]
    /\ call' = [NoCall EXCEPT !.op = "update", !.self = self,
                              !.vector = <<angle>>, !.ret = None]
    /\ UNCHANGED <<frames, _parent, position>>

(* self.find_transform_path(frame) *)
FindTransformPath(self, frame) ==
    /\ call = NoCall
    /\ walk = NoWalk
    /\ UNCHANGED <<walk, caller>>
    /\ call' = [op |-> "find_transform_path", self |-> self, frame |-> frame,
                vector |-> <<>>, path |-> <<>>,
                ret |-> find_transform_path(self, frame), arg |-> <<>>]
    /\ UNCHANGED <<frames, _parent, position, rotation>>

(* origin2d.find_transform_path(frame): the root walks like a frame does. *)
RootFindTransformPath(frame) ==
    /\ call = NoCall
    /\ walk = NoWalk
    /\ UNCHANGED <<walk, caller>>
    /\ call' = [op |-> "find_transform_path", self |-> origin2d,
                frame |-> frame, vector |-> <<>>, path |-> <<>>,
                ret |-> find_transform_path(origin2d, frame), arg |-> <<>>]
    /\ UNCHANGED <<frames, _parent, position, rotation>>

(* self.transform_to_parent(vector) that keeps the result as the frame's    *)
(* position.                                                               *)
TransformToParent_moves_frame(self, vector) ==
    /\ call = NoCall
    /\ walk = NoWalk
    /\ UNCHANGED <<walk, caller>>
    /\ call' = [op |-> "transform_to_parent", self |-> self,
                frame |-> origin2d, vector |-> vector, path |-> <<>>,
                ret |-> transform_to_parent(self, vector),
                arg |-> transform_to_parent_argument(self, vector)]
    /\ position' = [position EXCEPT
                        ![self] = transform_to_parent(self, vector)]
    /\ UNCHANGED <<frames, _parent, rotation>>

(* self.transform_to_parent(vector) *)
TransformToParent(self, vector) ==
    /\ call = NoCall
    /\ walk = NoWalk
    /\ UNCHANGED <<walk, caller>>
    /\ call' = [op |-> "transform_to_parent", self |-> self,
                frame |-> origin2d, vector |-> vector, path |-> <<>>,
                ret |-> transform_to_parent(self, vector),
                arg |-> transform_to_parent_argument(self, vector)]
    /\ UNCHANGED <<frames, _parent, position, rotation>>

(* self.transform_from_parent(vector) *)
TransformFromParent(self, vector) ==
    /\ call = NoCall
    /\ walk = NoWalk
    /\ UNCHANGED <<walk, caller>>
    /\ call' = [op |-> "transform_from_parent", self |-> self,
                frame |-> origin2d, vector |-> vector, path |-> <<>>,
                ret |-> transform_from_parent(self, vector),
                arg |-> transform_from_parent_argument(self, vector)]
    /\ UNCHANGED <<frames, _parent, position, rotation>>

(* Frame2d.transform_via_path(vector, path) *)
TransformViaPath(vector, path) ==
    /\ call = NoCall
    /\ walk = NoWalk
    /\ UNCHANGED <<walk, caller>>
    /\ call' = [op |-> "transform_via_path", self |-> origin2d,
                frame |-> origin2d, vector |-> vector, path |-> path,
                ret |-> transform_via_path(vector, path),
                arg |-> transform_via_path_argument(vector, path)]
    /\ UNCHANGED <<frames, _parent, position, rotation>>

(* self.transform_to(frame, vector) *)
TransformTo(self, frame, vector) ==
    /\ call = NoCall
    /\ walk = NoWalk
    /\ UNCHANGED <<walk, caller>>
    /\ call' = [op |-> "transform_to", self |-> self, frame |-> frame,
                vector |-> vector, path |-> <<>>,
                ret |-> transform_to(self, frame, vector),
                arg |-> transform_to_argument(self, frame, vector)]
    /\ UNCHANGED <<frames, _parent, position, rotation>>

(* self.transform_from(frame, vector) *)
TransformFrom(self, frame, vector) ==
    /\ call = NoCall
    /\ walk = NoWalk
    /\ UNCHANGED <<walk, caller>>
    /\ call' = [op |-> "transform_from", self |-> self, frame |-> frame,
                vector |-> vector, path |-> <<>>,
                ret |-> transform_from(self, frame, vector),
                arg |-> transform_from_argument(self, frame, vector)]
    /\ UNCHANGED <<frames, _parent, position, rotation>>

(* The caller takes the returned value; the next statement may follow. *)
Return ==
    /\ call # NoCall
    /\ UNCHANGED <<walk, caller>>
    /\ call' = NoCall
    /\ UNCHANGED <<frames, _parent, position, rotation>>

(* The paths handed to transform_via_path: those find_transform_path gives. *)
PathInputs ==
    { find_transform_path(s, d) : s \in frames, d \in frames \cup {origin2d} }

Next ==
    \/ \E pos \in PositionInputs \cup MisshapenInputs, angle \in AngleInputs,
          parent_frame \in frames \cup {origin2d} :
            NewFrame(pos, angle, parent_frame)
    \/ \E self \in frames, pos \in PositionInputs : SetPosition(self, pos)
    \/ \E self \in frames, angle \in AngleInputs : RotationUpdate(self, angle)
    \/ \E self \in frames, frame \in frames \cup {origin2d} :
            FindTransformPath(self, frame)
    \/ \E frame \in frames \cup {origin2d} : RootFindTransformPath(frame)
    \/ \E self \in frames, vector \in VectorInputs :
            TransformToParent(self, vector)
    \/ \E self \in frames, vector \in VectorInputs :
            TransformFromParent(self, vector)
    \/ \E vector \in VectorInputs, path \in PathInputs :
            TransformViaPath(vector, path)
    \/ \E self \in frames, frame \in frames \cup {origin2d},
          vector \in VectorInputs : TransformTo(self, frame, vector)
    \/ \E self \in frames, frame \in frames \cup {origin2d},
          vector \in VectorInputs : TransformFrom(self, frame, vector)
    \/ Return

Spec == Init /\ [][Next]_vars

(* ---------------------------------------------------------------------- *)
(* The tree, described without the loops of find_transform_path           *)
(* ---------------------------------------------------------------------- *)

(* The k-th frame above f: f itself for k = 0; origin2d stays origin2d. *)
RECURSIVE ancestor(_, _)
ancestor(f, k) ==
    IF k = 0 \/ f = origin2d THEN f ELSE ancestor(_parent[f], k - 1)

(* a lies strictly above f. *)
is_strict_ancestor(a, f) == \E k \in 1..MaxFrames : f # a /\ ancestor(f, k) = a

(* The number of parent links from f up to a, which lies on f's chain. *)
hops(f, a) ==
    CHOOSE k \in 0..MaxFrames :
        ancestor(f, k) = a /\ \A j \in 0..(k - 1) : ancestor(f, j) # a

(* f, parent(f), ... up to the child of a, each with the same direction. *)
up_chain(f, a, direction) ==
    [i \in 1..hops(f, a) |-> <<ancestor(f, i - 1), direction>>]

(* The child of a, ..., parent(f), f: the same frames from the top down. *)
down_chain(a, f, direction) ==
    [i \in 1..hops(f, a) |-> <<ancestor(f, hops(f, a) - i), direction>>]

(* Neither frame is the other or above the other: they meet at origin2d or *)
(* at a common ancestor below it.                                          *)
unrelated(a, b) ==
    /\ a \in frames /\ b \in frames /\ a # b
    /\ ~ is_strict_ancestor(a, b) /\ ~ is_strict_ancestor(b, a)

found_path == call.op = "find_transform_path"

(* ---------------------------------------------------------------------- *)
(* C1                                                                     *)
(* ---------------------------------------------------------------------- *)

(* C1: when neither frame is the other or an ancestor of the other, and    *)
(* when the destination is origin2d, find_transform_path returns the whole *)
(* upward chain of self as "to" steps (self first, origin2d left out)      *)
(* followed by the whole chain of the destination from the top down as     *)
(* "from" steps (destination last, origin2d left out); common ancestors    *)
(* below origin2d are kept and so occur twice.                             *)
C1_PathViaRoot ==
    (found_path /\ (call.frame = origin2d \/ unrelated(call.self, call.frame)))
        => call.ret = up_chain(call.self, origin2d, "to")
                      \o down_chain(origin2d, call.frame, "from")

(* A returned path between two frames that meet below origin2d: their      *)
(* common ancestor occurs in it as a "to" step and as a "from" step.       *)
C1_Witness ==
    /\ found_path
    /\ unrelated(call.self, call.frame)
    /\ \E x \in frames, i, j \in 1..Len(call.ret) :
           call.ret[i] = <<x, "to">> /\ call.ret[j] = <<x, "from">>

(* ---------------------------------------------------------------------- *)
(* C2                                                                     *)
(* ---------------------------------------------------------------------- *)

(* C2: when the destination is a frame strictly above self, the returned   *)
(* path is self, parent(self), ... up to the child of the destination,     *)
(* every step "to"; the destination and the frames above it are left out.  *)
C2_PathToAncestor ==
    (found_path /\ call.frame \in frames
                /\ is_strict_ancestor(call.frame, call.self))
        => call.ret = up_chain(call.self, call.frame, "to")

(* The scenario of the tests: from f3 to f1, two steps, with f1 below the  *)
(* root so that the chain above the destination is not empty either.       *)
C2_Witness ==
    /\ found_path
    /\ call.frame \in frames
    /\ is_strict_ancestor(call.frame, call.self)
    /\ Len(call.ret) = 2

(* ---------------------------------------------------------------------- *)
(* C3                                                                     *)
(* ---------------------------------------------------------------------- *)

(* C3: when self is strictly above the destination, the returned path is   *)
(* the chain from the child of self down to the destination, every step    *)
(* "from"; self and the frames above it are left out.                      *)
C3_PathToDescendant ==
    (found_path /\ call.frame \in frames
                /\ is_strict_ancestor(call.self, call.frame))
        => call.ret = down_chain(call.self, call.frame, "from")

C3_Witness ==
    /\ found_path
    /\ call.frame \in frames
    /\ is_strict_ancestor(call.self, call.frame)
    /\ Len(call.ret) = 2
    /\ call.ret[2] = <<call.frame, "from">>

(* ---------------------------------------------------------------------- *)
(* C4                                                                     *)
(* ---------------------------------------------------------------------- *)

(* C4: for every frame f, f.find_transform_path(f) is the empty list and   *)
(* f.transform_to(f, v) is v.                                              *)
C4_Identity ==
    /\ (found_path /\ call.self = call.frame) => call.ret = <<>>
    /\ (call.op = "transform_to" /\ call.self = call.frame)
           => call.ret = call.vector

(* f.transform_to(f, v) has returned, for a frame f two levels below the   *)
(* root, turned and displaced against its parent.                          *)
C4_Witness ==
    /\ call.op = "transform_to"
    /\ call.self = call.frame
    /\ _parent[call.self] # origin2d
    /\ rotation[call.self]._matrix # rotation[origin2d]._matrix
    /\ call.ret = call.vector

(* ---------------------------------------------------------------------- *)
(* C5                                                                     *)
(* ---------------------------------------------------------------------- *)

(* What one step of a path makes of a vector. *)
after_step(step, vector) ==
    IF step[2] = "to"
    THEN transform_to_parent(step[1], vector)
    ELSE transform_from_parent(step[1], vector)

(* The vector after the first k steps of the path. *)
RECURSIVE after_steps(_, _, _)
after_steps(vector, path, k) ==
    IF k = 0
    THEN vector
    ELSE after_step(path[k], after_steps(vector, path, k - 1))

(* C5: transform_via_path(vector, path) folds the vector through the path  *)
(* from its first step to its last: a "to" step replaces the vector by     *)
(* frame.transform_to_parent(vector), a "from" step by                     *)
(* frame.transform_from_parent(vector); the result is the vector after the *)
(* last step, and for the empty path it equals the input.                  *)
C5_ViaPathIsLeftFold ==
    call.op = "transform_via_path"
        => /\ call.ret = after_steps(call.vector, call.path, Len(call.path))
           /\ call.path = <<>> => call.ret = call.vector

(* A fold through a path that goes up and comes down again, and in which   *)
(* the order of the steps matters.                                         *)
C5_Witness ==
    /\ call.op = "transform_via_path"
    /\ \E i, j \in 1..Len(call.path) :
           i < j /\ call.path[i][2] = "to" /\ call.path[j][2] = "from"
    /\ call.ret # call.vector
    /\ call.ret = after_steps(call.vector, call.path, Len(call.path))
    /\ call.ret # after_steps(call.vector, reversed(call.path),
                              Len(call.path))

(* ---------------------------------------------------------------------- *)
(* C6                                                                     *)
(* ---------------------------------------------------------------------- *)

(* C6: source.transform_to(destination, v) is                              *)
(* transform_via_path(v, source.find_transform_path(destination)).         *)
C6_TransformToIsPathFold ==
    call.op = "transform_to"
        => call.ret = transform_via_path(
                          call.vector,
                          find_transform_path(call.self, call.frame))

(* transform_to between two frames that are not each other's ancestor: the *)
(* path has steps of both directions and differs from the path back.       *)
C6_Witness ==
    /\ call.op = "transform_to"
    /\ unrelated(call.self, call.frame)
    /\ call.ret # call.vector
    /\ call.ret # transform_via_path(
                      call.vector,
                      find_transform_path(call.frame, call.self))

(* ---------------------------------------------------------------------- *)
(* C7                                                                     *)
(* ---------------------------------------------------------------------- *)

(* C7: b.transform_from(a, v) returns v folded through the path from a to  *)
(* b, a.find_transform_path(b), and so equals a.transform_to(b, v).        *)
C7_TransformFromIsPathFold ==
    (call.op = "transform_from" /\ call.frame \in frames)
        => /\ call.ret = transform_via_path(
                             call.vector,
                             find_transform_path(call.frame, call.self))
           /\ call.ret = transform_to(call.frame, call.self, call.vector)

(* ---------------------------------------------------------------------- *)
(* C8                                                                     *)
(* ---------------------------------------------------------------------- *)

(* C8: for all frames a and b and every vector v,                          *)
(* a.transform_from(b, a.transform_to(b, v)) is v.                         *)
C8_RoundTrip ==
    (call.op = "transform_to" /\ call.frame \in frames)
        => transform_from(call.self, call.frame, call.ret) = call.vector

(* ---------------------------------------------------------------------- *)
(* C9                                                                     *)
(* ---------------------------------------------------------------------- *)

(* C9: for every frame and every vector v,                                 *)
(* frame.transform_to_parent(frame.transform_from_parent(v)) is v and      *)
(* frame.transform_from_parent(frame.transform_to_parent(v)) is v.         *)
C9_ParentChildInverse ==
    /\ call.op = "transform_from_parent"
           => transform_to_parent(call.self, call.ret) = call.vector
    /\ call.op = "transform_to_parent"
           => transform_from_parent(call.self, call.ret) = call.vector

(* transform_from_parent has returned for a frame that is turned by a      *)
(* quarter against its parent, where the rotation and its inverse differ.  *)
C9_Witness ==
    /\ call.op = "transform_from_parent"
    /\ rotation[call.self]._matrix # transpose(rotation[call.self]._matrix)
    /\ call.ret # call.vector
    /\ transform_to_parent(call.self, call.ret) = call.vector

(* ---------------------------------------------------------------------- *)
(* C10                                                                    *)
(* ---------------------------------------------------------------------- *)

(* C10: frame.transform_to_parent(v) is frame.rotation.apply(v) plus       *)
(* frame.position, with the position and the rotation the frame has at the *)
(* time of the call: first the rotation, then the translation.             *)
C10_ToParentRotatesThenTranslates ==
    call.op = "transform_to_parent"
        => LET rotated == apply(rotation[call.self], call.vector)
           IN  /\ call.ret[1] = rotated[1] + position[call.self][1]
               /\ call.ret[2] = rotated[2] + position[call.self][2]

(* transform_to_parent has returned for a frame where translating first    *)
(* would have given another vector.                                        *)
C10_Witness ==
    /\ call.op = "transform_to_parent"
    /\ call.ret # apply(rotation[call.self],
                        add(call.vector, position[call.self]))
    /\ call.ret # call.vector

(* ---------------------------------------------------------------------- *)
(* C11                                                                    *)
(* ---------------------------------------------------------------------- *)

(* C11: frame.transform_from_parent(v) is                                  *)
(* frame.rotation.apply_inverse(v - frame.position): the position is       *)
(* subtracted first and the inverse rotation (the transposed matrix) is    *)
(* applied to the difference; the call returns a vector of two components, *)
(* it does not fail.                                                       *)
C11_FromParentTranslatesThenRotatesBack ==
    call.op = "transform_from_parent"
        => LET m == rotation[call.self]._matrix
               d1 == call.vector[1] - position[call.self][1]
               d2 == call.vector[2] - position[call.self][2]
           IN  /\ Len(call.ret) = 2
               /\ call.ret \in Seq(Int)
               /\ call.ret[1] = m[1][1] * d1 + m[2][1] * d2
               /\ call.ret[2] = m[1][2] * d1 + m[2][2] * d2

(* transform_from_parent has returned for a frame where rotating back      *)
(* before subtracting would have given another vector.                     *)
C11_Witness ==
    /\ call.op = "transform_from_parent"
    /\ call.ret # sub(apply_inverse(rotation[call.self], call.vector),
                      position[call.self])
    /\ call.ret # call.vector

(* ---------------------------------------------------------------------- *)
(* C12                                                                    *)
(* ---------------------------------------------------------------------- *)

(* The calls that are handed a vector. *)
VectorCalls ==
    {"transform_to_parent", "transform_from_parent", "transform_to",
     "transform_from", "transform_via_path"}

(* C12: after transform_to_parent, transform_from_parent, transform_to,    *)
(* transform_from and transform_via_path, and after Rotation2d.apply, the  *)
(* array the caller handed in holds the components it held before.         *)
C12_ArgumentUnchanged ==
    /\ call.op \in VectorCalls => call.arg = call.vector
    /\ \A f \in frames \cup {origin2d}, v \in VectorInputs :
           apply_argument(rotation[f], v) = v

(* A call has returned another vector than it was handed, and the array it *)
(* was handed still holds what it held.                                    *)
C12_Witness ==
    /\ call.op = "transform_from_parent"
    /\ call.ret # call.vector
    /\ call.arg = call.vector

(* ---------------------------------------------------------------------- *)
(* One call of transform_to followed statement by statement                *)
(* ---------------------------------------------------------------------- *)

(* Frame2d.find_transform_path, one pass of the first while loop without   *)
(* moving on to the parent: the loop then never leaves its frame.          *)
first_loop_stays(w) ==
    IF w.current_frame = origin2d
    THEN [w EXCEPT !.pc = "second_loop", !.current_frame = w.frame]
    ELSE IF w.current_frame = w.frame
         THEN [w EXCEPT !.pc = "returned", !.path = w.self_to_origin]
         ELSE [w EXCEPT !.self_to_origin = Append(@, <<w.current_frame, "to">>),
                        !.links = @ + 1]

(* Frame2d.find_transform_path, one pass of the first while loop that       *)
(* gives up when the walk comes back to the frame it started from.         *)
first_loop_notices_cycle(w) ==
    IF w.current_frame = origin2d
    THEN [w EXCEPT !.pc = "second_loop", !.current_frame = w.frame]
    ELSE IF w.current_frame = w.frame \/ _parent[w.current_frame] = w.self
         THEN [w EXCEPT !.pc = "returned", !.path = w.self_to_origin]
         ELSE [w EXCEPT !.self_to_origin = Append(@, <<w.current_frame, "to">>),
                        !.current_frame = _parent[w.current_frame],
                        !.links = @ + 1]

(* Frame2d.find_transform_path, one test of the first while loop and what  *)
(* follows it: the loop body, or, when the loop ends at origin2d, the      *)
(* set-up of the second loop.                                              *)
first_loop(w) ==
    IF w.current_frame = origin2d
    THEN [w EXCEPT !.pc = "second_loop", !.current_frame = w.frame]
    ELSE IF w.current_frame = w.frame
         THEN [w EXCEPT !.pc = "returned", !.path = w.self_to_origin]
         ELSE [w EXCEPT !.self_to_origin = Append(@, <<w.current_frame, "to">>),
                        !.current_frame = _parent[w.current_frame],
                        !.links = @ + 1]

(* Frame2d.find_transform_path, one test of the second while loop and what *)
(* follows it: the loop body, or, when the loop ends at origin2d, the      *)
(* joined path.                                                            *)
second_loop(w) ==
    IF w.current_frame = origin2d
    THEN [w EXCEPT !.pc = "returned",
                   !.path = w.self_to_origin \o reversed(w.frame_to_origin)]
    ELSE IF w.current_frame = w.self
         THEN [w EXCEPT !.pc = "returned",
                        !.path = reversed(w.frame_to_origin)]
         ELSE [w EXCEPT !.frame_to_origin =
                            Append(@, <<w.current_frame, "from">>),
                        !.current_frame = _parent[w.current_frame],
                        !.links = @ + 1]

(* Frame2d.transform_via_path, one turn of its loop over the path. *)
for_step(w) ==
    IF w.steps < Len(w.path)
    THEN LET step == w.path[w.steps + 1]
         IN  [w EXCEPT !.vector = IF step[2] = "to"
                                  THEN transform_to_parent(step[1], @)
                                  ELSE transform_from_parent(step[1], @),
                       !.steps = @ + 1]
    ELSE [w EXCEPT !.pc = "transformed"]

(* self.transform_to(frame, vector) is entered. *)
WalkCall(self, frame, vector) ==
    /\ call = NoCall
    /\ walk = NoWalk
    /\ walk' = [NoWalk EXCEPT !.pc = "first_loop", !.self = self,
                              !.frame = frame, !.current_frame = self,
                              !.vector = vector]
    /\ UNCHANGED <<frames, _parent, position, rotation, call, caller>>

(* The next pass of the first loop. *)
WalkFirstLoop ==
    /\ walk.pc = "first_loop"
    /\ first_loop(walk).links <= MaxSteps
    /\ walk' = first_loop(walk)
    /\ UNCHANGED <<frames, _parent, position, rotation, call, caller>>

(* The next pass of the second loop. *)
WalkSecondLoop ==
    /\ walk.pc = "second_loop"
    /\ second_loop(walk).links <= MaxSteps
    /\ walk' = second_loop(walk)
    /\ UNCHANGED <<frames, _parent, position, rotation, call, caller>>

(* find_transform_path has returned: transform_via_path starts on the path. *)
WalkViaPath ==
    /\ walk.pc = "returned"
    /\ walk' = [walk EXCEPT !.pc = "for"]
    /\ UNCHANGED <<frames, _parent, position, rotation, call, caller>>

(* The next turn of the loop over the path. *)
WalkFor ==
    /\ walk.pc = "for"
    /\ walk' = for_step(walk)
    /\ UNCHANGED <<frames, _parent, position, rotation, call, caller>>

(* transform_to returns. *)
WalkReturn ==
    /\ walk.pc = "transformed"
    /\ walk' = NoWalk
    /\ UNCHANGED <<frames, _parent, position, rotation, call, caller>>

(* frame._parent = parent_frame, written from outside the class: the only  *)
(* way a chain of parents can come to miss origin2d.                       *)
SetParent(self, parent_frame) ==
    /\ call = NoCall
    /\ walk = NoWalk
    /\ _parent[self] # parent_frame
    /\ _parent' = [_parent EXCEPT ![self] = parent_frame]
    /\ UNCHANGED <<frames, position, rotation, call, walk, caller>>

WalkStep == WalkFirstLoop \/ WalkSecondLoop \/ WalkViaPath \/ WalkFor

NextWalk ==
    \/ \E parent_frame \in frames \cup {origin2d} :
            NewFrame(<<1, 2>>, 1, parent_frame)
    \/ \E self \in frames, parent_frame \in frames \cup {origin2d} :
            SetParent(self, parent_frame)
    \/ \E self \in frames, frame \in frames \cup {origin2d} :
            WalkCall(self, frame, <<2, 3>>)
    \/ WalkFirstLoop
    \/ WalkSecondLoop
    \/ WalkViaPath
    \/ WalkFor
    \/ WalkReturn

(* A call that has been entered goes on executing. *)
SpecWalk == Init /\ [][NextWalk]_vars /\ WF_vars(WalkStep)

(* Every frame's chain of parents reaches origin2d. *)
well_formed ==
    \A f \in frames : \E k \in 1..MaxFrames : ancestor(f, k) = origin2d

(* The number of parent links from f up to origin2d. *)
depth(f) == hops(f, origin2d)

(* ---------------------------------------------------------------------- *)
(* C13                                                                    *)
(* ---------------------------------------------------------------------- *)

(* C13: in a tree in which every chain of parents reaches origin2d,        *)
(* find_transform_path returns for every pair of frames, having followed   *)
(* at most depth(self) + depth(destination) parent links, and              *)
(* transform_via_path returns after exactly one step per element of the    *)
(* path.                                                                   *)
C13_Terminates ==
    /\ [](well_formed
            => /\ walk.links <= depth(walk.self) + depth(walk.frame)
               /\ walk.steps <= Len(walk.path)
               /\ walk.pc = "transformed" => walk.steps = Len(walk.path))
    /\ (well_formed /\ walk.pc \in {"first_loop", "second_loop"})
            ~> (walk.pc = "returned")
    /\ (well_formed /\ walk.pc = "for") ~> (walk.pc = "transformed")

C13_Witness ==
    /\ well_formed
    /\ walk.pc = "transformed"
    /\ walk.links = depth(walk.self) + depth(walk.frame)
    /\ walk.links = 4
    /\ walk.steps = 4

(* ---------------------------------------------------------------------- *)
(* C14                                                                    *)
(* ---------------------------------------------------------------------- *)

(* The chain of parents of f never reaches origin2d: with at most          *)
(* MaxFrames frames it runs into a cycle.                                  *)
runs_into_cycle(f) ==
    f \in frames /\ \A k \in 0..MaxFrames : ancestor(f, k) # origin2d

(* frame is self or one of the frames the chain of parents of self visits. *)
on_chain(frame, self) == \E k \in 0..MaxFrames : ancestor(self, k) = frame

(* C14 as stated: find_transform_path called on a frame whose chain of     *)
(* parents runs into a cycle never returns, whatever the destination.      *)
C14_CycleNeverReturns ==
    (walk.pc # "idle" /\ runs_into_cycle(walk.self))
        => walk.pc = "first_loop"

(* C14: find_transform_path called on a frame whose chain of parents runs  *)
(* into a cycle reports no error, and never leaves its first loop (each    *)
(* pass follows one more parent link and comes back to the loop) unless    *)
(* the destination is self or lies on that chain; in that case the walk    *)
(* meets the destination and returns the "to" steps from self up to it.    *)
C14_CycleReturnsOnlyOnChain ==
    (walk.pc # "idle" /\ runs_into_cycle(walk.self))
        => IF on_chain(walk.frame, walk.self)
           THEN /\ walk.pc # "second_loop"
                /\ walk.pc # "first_loop"
                      => walk.path = up_chain(walk.self, walk.frame, "to")
           ELSE /\ walk.pc = "first_loop"
                /\ first_loop(walk).pc = "first_loop"
                /\ first_loop(walk).links = walk.links + 1

C14_Witness ==
    /\ runs_into_cycle(walk.self)
    /\ ~ on_chain(walk.frame, walk.self)
    /\ walk.pc = "first_loop"
    /\ walk.links = MaxSteps

(* ---------------------------------------------------------------------- *)
(* Constructors, and the array the caller hands to Frame2d                 *)
(* ---------------------------------------------------------------------- *)

(* Arrays of every length from 0 to 4, as a constructor may be handed. *)
CoordinateInputs == {<<>>, <<1>>, <<1, 2>>, <<1, 2, 3>>, <<1, 2, 3, 4>>}

(* The value written into an array in place. *)
WrittenInputs == {5}

(* The root of the 3d frames.  A constructor that raises nothing returns   *)
(* the object it built: the name of the class and the attributes it set.   *)
origin3d == "origin3d"

(* The attribute bound to the argument itself: one array under two names. *)
copy_same_object(array) == [value |-> array, same_object |-> TRUE]

(* numpy.ndarray.copy: another array with the same contents. *)
copy(array) == [value |-> array, same_object |-> FALSE]

(* Frame2d.__init__ without its shape check. *)
Frame2d_unchecked(pos, rot, parent_frame) ==
    <<"Frame2d", copy(pos).value, rot, parent_frame>>

(* Frame2d.__init__ *)
Frame2d(pos, rot, parent_frame) ==
    IF shape(pos) # <<2>>
    THEN ValueError
    ELSE <<"Frame2d", copy(pos).value, rot, parent_frame>>

(* Frame3d.__init__ *)
Frame3d(pos, rot, parent_frame) ==
    IF shape(pos) # <<3>>
    THEN ValueError
    ELSE <<"Frame3d", copy(pos).value, rot, parent_frame>>

(* Position2d.__init__ *)
Position2d(coordinates, reference) ==
    IF shape(coordinates) # <<2>>
    THEN ValueError
    ELSE <<"Position2d", coordinates, reference>>

(* Position3d.__init__ *)
Position3d(coordinates, reference) ==
    IF shape(coordinates) # <<3>>
    THEN ValueError
    ELSE <<"Position3d", coordinates, reference>>

(* Direction2d.__init__ *)
Direction2d(vector, reference) ==
    IF shape(vector) # <<2>>
    THEN ValueError
    ELSE <<"Direction2d", vector, reference>>

(* Direction3d.__init__ *)
Direction3d(vector, reference) ==
    IF shape(vector) # <<3>>
    THEN ValueError
    ELSE <<"Direction3d", vector, reference>>

(* A constructor that touches no tree has been called: the object, or the  *)
(* exception, is all that is left of the call.                             *)
Constructed(op, array, object) ==
    /\ call = NoCall
    /\ walk = NoWalk
    /\ call' = [NoCall EXCEPT !.op = op, !.vector = array, !.arg = array,
                              !.ret = object]
    /\ UNCHANGED <<frames, _parent, position, rotation, walk, caller>>

(* array = np.array(...); Frame2d(array, Rotation2d(angle), parent_frame). *)
(* The caller keeps the array.                                             *)
ConstructFrame2d(array, angle, parent_frame) ==
    LET self == Cardinality(frames) + 1
        object == Frame2d(array, Rotation2d(angle), parent_frame)
    IN  /\ call = NoCall
        /\ walk = NoWalk
        /\ Cardinality(frames) < MaxFrames
        /\ call' = [NoCall EXCEPT !.op = "Frame2d", !.frame = parent_frame,
                                  !.vector = array, !.arg = array,
                                  !.ret = object,
                                  !.self = IF object = ValueError
                                           THEN origin2d ELSE self]
        /\ IF object = ValueError
           THEN /\ caller' = [array |-> array, shared_with |-> {}]
                /\ UNCHANGED <<frames, _parent, position, rotation>>
           ELSE /\ frames' = frames \cup {self}
                /\ _parent' = (self :> object[4]) @@ _parent
                /\ position' = (self :> object[2]) @@ position
                /\ rotation' = (self :> object[3]) @@ rotation
                /\ caller' = [array |-> array,
                              shared_with |-> IF copy(array).same_object
                                              THEN {self} ELSE {}]
        /\ UNCHANGED walk

ConstructFrame3d(array) ==
    Constructed("Frame3d", array, Frame3d(array, "Rotation3d", origin3d))

ConstructPosition2d(array, reference) ==
    Constructed("Position2d", array, Position2d(array, reference))

ConstructPosition3d(array) ==
    Constructed("Position3d", array, Position3d(array, origin3d))

ConstructDirection2d(array, reference) ==
    Constructed("Direction2d", array, Direction2d(array, reference))

ConstructDirection3d(array) ==
    Constructed("Direction3d", array, Direction3d(array, origin3d))

(* array[0] = x, on the array the caller handed to the last constructor:   *)
(* every name bound to that array sees the new contents.                   *)
CallerWrites(x) ==
    /\ call = NoCall
    /\ Len(caller.array) >= 1
    /\ caller.array[1] # x
    /\ caller' = [caller EXCEPT !.array[1] = x]
    /\ position' = [f \in DOMAIN position |->
                        IF f \in caller.shared_with
                        THEN [position[f] EXCEPT ![1] = x] ELSE position[f]]
    /\ UNCHANGED <<frames, _parent, rotation, call, walk>>

(* self.position[0] = x, in place. *)
FrameWrites(self, x) ==
    /\ call = NoCall
    /\ position[self][1] # x
    /\ position' = [f \in DOMAIN position |->
                        IF f = self
                           \/ (self \in caller.shared_with
                               /\ f \in caller.shared_with)
                        THEN [position[f] EXCEPT ![1] = x] ELSE position[f]]
    /\ caller' = IF self \in caller.shared_with
                 THEN [caller EXCEPT !.array[1] = x] ELSE caller
    /\ UNCHANGED <<frames, _parent, rotation, call, walk>>

NextConstruct ==
    \/ \E array \in CoordinateInputs, parent_frame \in frames \cup {origin2d} :
            ConstructFrame2d(array, 1, parent_frame)
    \/ \E array \in CoordinateInputs : ConstructFrame3d(array)
    \/ \E array \in CoordinateInputs, reference \in frames \cup {origin2d} :
            ConstructPosition2d(array, reference)
    \/ \E array \in CoordinateInputs : ConstructPosition3d(array)
    \/ \E array \in CoordinateInputs, reference \in frames \cup {origin2d} :
            ConstructDirection2d(array, reference)
    \/ \E array \in CoordinateInputs : ConstructDirection3d(array)
    \/ \E x \in WrittenInputs : CallerWrites(x)
    \/ \E self \in frames, x \in WrittenInputs : FrameWrites(self, x)
    \/ Return

SpecConstruct == Init /\ [][NextConstruct]_vars

(* ---------------------------------------------------------------------- *)
(* C15                                                                    *)
(* ---------------------------------------------------------------------- *)

(* The length each constructor declares. *)
dimension(op) ==
    IF op \in {"Frame2d", "Position2d", "Direction2d"} THEN 2 ELSE 3

Constructors ==
    {"Frame2d", "Frame3d", "Position2d", "Position3d",
     "Direction2d", "Direction3d"}

(* C15: a constructor of a frame, a position or a direction that is handed *)
(* an array of another length than its dimension (2 or 3) raises           *)
(* ValueError, whatever the wrong length, and one handed an array of that  *)
(* length returns an object holding it; the call that raises adds no frame *)
(* and leaves every frame as it was, and every frame of the tree has a     *)
(* position of length 2.                                                   *)
C15_ShapeRejection ==
    /\ [](/\ call.op \in Constructors
                => IF Len(call.arg) # dimension(call.op)
                   THEN call.ret = ValueError
                   ELSE call.ret[1] = call.op /\ call.ret[2] = call.arg
          /\ \A f \in frames : Len(position[f]) = 2)
    /\ [][(call'.op \in Constructors /\ call = NoCall
           /\ Len(call'.arg) # dimension(call'.op))
            => UNCHANGED <<frames, _parent, position, rotation>>]_vars

C15_Witness ==
    /\ call.op = "Frame2d"
    /\ call.ret = ValueError
    /\ Len(call.arg) = 4
    /\ frames # {}

(* ---------------------------------------------------------------------- *)
(* C16                                                                    *)
(* ---------------------------------------------------------------------- *)

(* C16: the frame Frame2d builds holds an array of its own with the        *)
(* contents of the one it was handed: right after construction the two are *)
(* equal, and afterwards no write into the caller's array changes the      *)
(* position of any frame and no write into the position of a frame changes *)
(* the caller's array.                                                     *)
C16_DefensiveCopy ==
    /\ []((call.op = "Frame2d" /\ call.ret # ValueError)
            => position[call.self] = call.arg /\ caller.array = call.arg)
    /\ [][frames' = frames
            => position' = position \/ caller'.array = caller.array]_vars

(* Both have been written, each without the other following: the array    *)
(* the caller handed to the newest frame, and that frame's position.       *)
C16_Witness ==
    /\ frames # {}
    /\ call = NoCall
    /\ caller.array = <<5, 2>>
    /\ \E f \in frames : position[f] # caller.array
    /\ \E f \in frames : position[f] = <<5, 2>>

(* ---------------------------------------------------------------------- *)
(* C17                                                                    *)
(* ---------------------------------------------------------------------- *)

(* C17: origin2d.find_transform_path(f) returns one step per frame on the  *)
(* chain of parents of f, the child of origin2d first and f last, each     *)
(* with direction "from"; for origin2d itself the path is empty.           *)
C17_RootPath ==
    (found_path /\ call.self = origin2d)
        => /\ Len(call.ret) = depth(call.frame)
           /\ \A i \in 1..Len(call.ret) :
                call.ret[i] = <<ancestor(call.frame, Len(call.ret) - i), "from">>

C17_Witness ==
    /\ found_path
    /\ call.self = origin2d
    /\ Len(call.ret) = 3
    /\ call.ret[3][1] = call.frame
    /\ _parent[call.ret[1][1]] = origin2d

(* ---------------------------------------------------------------------- *)
(* C18                                                                    *)
(* ---------------------------------------------------------------------- *)

(* C18: for every Rotation2d there is, as built or after any updates,      *)
(* as_matrix() is [[cos a, -sin a], [sin a, cos a]] for a = as_rad(), and  *)
(* apply(v) is that matrix times v; as_rad() of a new Rotation2d(a) is a,  *)
(* and after update(a) it is a.                                            *)
C18_NoStaleMatrix ==
    /\ \A f \in frames \cup {origin2d} :
        LET a == as_rad(rotation[f])
        IN  /\ as_matrix(rotation[f]) = << <<cos(a), -sin(a)>>,
                                           <<sin(a), cos(a)>> >>
            /\ \A v \in VectorInputs :
                apply(rotation[f], v) = << cos(a) * v[1] - sin(a) * v[2],
                                           sin(a) * v[1] + cos(a) * v[2] >>
    /\ \A a \in AngleInputs : as_rad(Rotation2d(a)) = a
    /\ call.op = "update" => as_rad(rotation[call.self]) = call.vector[1]

C18_Witness ==
    /\ call.op = "update"
    /\ call.vector = <<1>>
    /\ as_matrix(rotation[call.self]) = << <<0, -1>>, <<1, 0>> >>
    /\ \E f \in frames : as_matrix(rotation[f]) = << <<1, 0>>, <<0, 1>> >>

(* ---------------------------------------------------------------------- *)
(* C20                                                                    *)
(* ---------------------------------------------------------------------- *)

Queries == VectorCalls \cup {"find_transform_path"}

(* C20: a call of find_transform_path, transform_to_parent,                *)
(* transform_from_parent, transform_to, transform_from or                  *)
(* transform_via_path leaves the set of frames and the position, rotation  *)
(* and parent of every frame as they were; and origin2d has position       *)
(* [0, 0], the rotation of angle 0 with the identity matrix, and no        *)
(* parent, in every state.                                                 *)
C20_QueriesLeaveTreeAlone ==
    /\ [](/\ position[origin2d] = <<0, 0>>
          /\ as_rad(rotation[origin2d]) = 0
          /\ as_matrix(rotation[origin2d]) = << <<1, 0>>, <<0, 1>> >>
          /\ origin2d \notin DOMAIN _parent)
    /\ [][(call = NoCall /\ call'.op \in Queries)
            => UNCHANGED <<frames, _parent, position, rotation>>]_vars

C20_Witness ==
    /\ call.op = "transform_to"
    /\ call.ret # call.vector
    /\ Cardinality(frames) = MaxFrames
    /\ \E f \in frames : as_rad(rotation[f]) = 1 /\ position[f] = <<-2, 1>>
    /\ position[origin2d] = <<0, 0>>

(* ---------------------------------------------------------------------- *)
(* Frames that are built one way and changed to another                    *)
(* ---------------------------------------------------------------------- *)

(* Every frame is built at [1, 2] with angle 0; every assignment to        *)
(* position stores [-2, 1] and every update sets angle 1, so that a frame  *)
(* that has been changed since it was built can be told from one that has  *)
(* not.                                                                    *)
NextMutate ==
    \/ \E parent_frame \in frames \cup {origin2d} :
            NewFrame(<<1, 2>>, 0, parent_frame)
    \/ \E self \in frames : SetPosition(self, <<-2, 1>>)
    \/ \E self \in frames : RotationUpdate(self, 1)
    \/ \E self \in frames, frame \in frames \cup {origin2d} :
            FindTransformPath(self, frame)
    \/ \E self \in frames, frame \in frames \cup {origin2d},
          vector \in VectorInputs : TransformTo(self, frame, vector)
    \/ \E self \in frames, frame \in frames \cup {origin2d},
          vector \in VectorInputs : TransformFrom(self, frame, vector)
    \/ Return

SpecMutate == Init /\ [][NextMutate]_vars

(* ---------------------------------------------------------------------- *)
(* C19                                                                    *)
(* ---------------------------------------------------------------------- *)

(* The position of f has been re-assigned or its rotation updated. *)
mutated(f) == position[f] # <<1, 2>> \/ as_rad(rotation[f]) # 0

(* The path from a to b as the tree stands. *)
path_between(a, b) ==
    IF a = b THEN <<>>
    ELSE IF is_strict_ancestor(b, a) THEN up_chain(a, b, "to")
    ELSE IF is_strict_ancestor(a, b) THEN down_chain(a, b, "from")
    ELSE up_chain(a, origin2d, "to") \o down_chain(origin2d, b, "from")

(* f is one end of the call or a frame on the path between the ends. *)
involved(f) ==
    \/ f \in {call.self, call.frame}
    \/ \E i \in 1..Len(path_between(call.self, call.frame)) :
            path_between(call.self, call.frame)[i][1] = f

(* C19: a call of find_transform_path, transform_to or transform_from that *)
(* involves a frame whose position has been re-assigned or whose rotation  *)
(* has been updated returns what the tree as it stands gives: the path     *)
(* between the two frames, and the vector taken along that path with the   *)
(* present position and rotation of every frame on it.                     *)
C19_NoCaching ==
    \A f \in frames :
        (mutated(f) /\ involved(f))
            => /\ call.op = "find_transform_path"
                    => call.ret = path_between(call.self, call.frame)
               /\ call.op = "transform_to"
                    => call.ret =
                         after_steps(call.vector,
                                     path_between(call.self, call.frame),
                                     Len(path_between(call.self, call.frame)))
               /\ call.op = "transform_from"
                    => call.ret =
                         after_steps(call.vector,
                                     path_between(call.frame, call.self),
                                     Len(path_between(call.frame, call.self)))

(* ---------------------------------------------------------------------- *)
(* gtFrame.direction, gtFrame.position, gtFrame.vector                     *)
(* ---------------------------------------------------------------------- *)

(* Position and angle of the frames the wrapper classes are tried on. *)
FrameInputs == {<< <<1, 2>>, 0 >>, << <<-2, 1>>, 1 >>}

(* Frame2d.rotate_via_path: the rotation of every "to" step and the        *)
(* inverse rotation of every "from" step, first step first.                *)
RECURSIVE rotate_via_path(_, _)
rotate_via_path(vector, path) ==
    IF path = <<>>
    THEN vector
    ELSE LET frame == path[1][1]
             direction == path[1][2]
             rotated == IF direction = "to"
                        THEN apply(rotation[frame], vector)
                        ELSE apply_inverse(rotation[frame], vector)
         IN  rotate_via_path(rotated, Tail(path))

(* Direction2d.transform_to handing the path to transform_via_path. *)
Direction2d_transform_to_as_position(vector, self_reference, reference) ==
    transform_via_path(vector, find_transform_path(self_reference, reference))

(* Direction2d.transform_to, for the direction (vector, self_reference) *)
Direction2d_transform_to(vector, self_reference, reference) ==
    rotate_via_path(vector, find_transform_path(self_reference, reference))

(* Direction2d(vector, self_reference).transform_to(reference) *)
DirectionTransformTo(vector, self_reference, reference) ==
    /\ call = NoCall
    /\ walk = NoWalk
    /\ call' = [op |-> "Direction2d.transform_to", self |-> self_reference,
                frame |-> reference, vector |-> vector,
                path |-> find_transform_path(self_reference, reference),
                ret |-> Direction2d_transform_to(vector, self_reference,
                                                 reference),
                arg |-> vector]
    /\ UNCHANGED <<frames, _parent, position, rotation, walk, caller>>

(* ---------------------------------------------------------------------- *)
(* C21                                                                    *)
(* ---------------------------------------------------------------------- *)

(* The angles of the "to" steps of the path less those of the "from" steps. *)
RECURSIVE net_angle(_)
net_angle(path) ==
    IF path = <<>>
    THEN 0
    ELSE (IF path[1][2] = "to" THEN as_rad(rotation[path[1][1]])
                               ELSE 0 - as_rad(rotation[path[1][1]]))
         + net_angle(Tail(path))

(* C21: Direction2d.transform_to(reference) turns the vector by the        *)
(* rotation of every "to" step and by the inverse rotation of every "from" *)
(* step of the path from the direction's reference to reference, which for *)
(* plane rotations is one turn by the sum of the "to" angles less the sum  *)
(* of the "from" angles; no position of any frame enters the result.       *)
C21_DirectionRotatesOnly ==
    call.op = "Direction2d.transform_to"
        => LET a == net_angle(call.path)
           IN  call.ret = << cos(a) * call.vector[1] - sin(a) * call.vector[2],
                             sin(a) * call.vector[1] + cos(a) * call.vector[2] >>

C21_Witness ==
    /\ call.op = "Direction2d.transform_to"
    /\ Len(call.path) >= 3
    /\ \E i, j \in 1..Len(call.path) :
            call.path[i][2] = "to" /\ call.path[j][2] = "from"
    /\ call.ret # call.vector
    /\ call.ret # transform_via_path(call.vector, call.path)

(* ---------------------------------------------------------------------- *)
(* gtFrame.position                                                        *)
(* ---------------------------------------------------------------------- *)

(* Python's True and False, as returned values. *)
True == <<"True">>

False == <<"False">>

(* The exception of an attribute looked up on an object that lacks it. *)
AttributeError == <<"AttributeError">>

(* Coordinates handed to the wrapper classes. *)
CoordinateVectors == {<<1, 0>>, <<2, 3>>}

(* numpy.allclose(a, b, rtol): |a - b| <= atol + rtol * |b| in every        *)
(* component.  The components are whole numbers and both tolerances lie    *)
(* far below 1 / |b| here, so the test passes exactly when a equals b.     *)
allclose(a, b) ==
    IF \A i \in 1..Len(a) : a[i] = b[i] THEN True ELSE False

(* Position2d.transform_to, for the position (coordinates, self_reference) *)
Position2d_transform_to(coordinates, self_reference, reference) ==
    transform_to(self_reference, reference, coordinates)

(* Position2d.__eq__, self == position *)
Position2d_eq(coordinates, self_reference, position_coordinates, position_reference) ==
    LET other == Position2d_transform_to(position_coordinates,
                                         position_reference, self_reference)
    IN  allclose(coordinates, other)

(* Position2d.get_direction with the difference taken the other way round. *)
Position2d_get_direction_backwards(coordinates, self_reference, other_coordinates, other_reference) ==
    LET transformed == Position2d_transform_to(other_coordinates,
                                               other_reference, self_reference)
    IN  Direction2d(sub(coordinates, transformed), self_reference)

(* Position2d.get_direction *)
Position2d_get_direction(coordinates, self_reference, other_coordinates, other_reference) ==
    LET transformed == Position2d_transform_to(other_coordinates,
                                               other_reference, self_reference)
        direction_vector == sub(transformed, coordinates)
    IN  Direction2d(direction_vector, self_reference)

(* position_a = Position2d(coordinates, frame_a);                          *)
(* position_b = Position2d(frame_b.transform_from(frame_a, coordinates),   *)
(*                         frame_b);                                       *)
(* position_a == position_b.                                               *)
(* What transform_from returns goes to the constructor, which reads its    *)
(* .shape: None has none.                                                  *)
PositionEqAcrossFrames(coordinates, frame_a, frame_b) ==
    LET moved == transform_from(frame_b, frame_a, coordinates)
        position_b == IF moved = None
                      THEN AttributeError
                      ELSE Position2d(moved, frame_b)
    IN  /\ call = NoCall
        /\ walk = NoWalk
        /\ call' = [op |-> "Position2d.__eq__", self |-> frame_a,
                    frame |-> frame_b, vector |-> coordinates,
                    path |-> <<>>,
                    ret |-> IF position_b \in {AttributeError, ValueError}
                            THEN position_b
                            ELSE Position2d_eq(coordinates, frame_a,
                                               position_b[2], position_b[3]),
                    arg |-> moved]
        /\ UNCHANGED <<frames, _parent, position, rotation, walk, caller>>

(* Position2d(coordinates, self_reference).get_direction(                  *)
(*     Position2d(other_coordinates, other_reference))                     *)
PositionGetDirection(coordinates, self_reference, other_coordinates, other_reference) ==
    /\ call = NoCall
    /\ walk = NoWalk
    /\ call' = [op |-> "Position2d.get_direction", self |-> self_reference,
                frame |-> other_reference, vector |-> coordinates,
                path |-> <<>>,
                ret |-> Position2d_get_direction(coordinates, self_reference,
                                                 other_coordinates,
                                                 other_reference),
                arg |-> other_coordinates]
    /\ UNCHANGED <<frames, _parent, position, rotation, walk, caller>>

(* ---------------------------------------------------------------------- *)
(* C22                                                                    *)
(* ---------------------------------------------------------------------- *)

(* C22: for frames a, b and coordinates c, the comparison                  *)
(* Position2d(c, a) == Position2d(b.transform_from(a, c), b) gives True.   *)
C22_PositionEqualityFrameIndependent ==
    call.op = "Position2d.__eq__" => call.ret = True

(* ---------------------------------------------------------------------- *)
(* C23                                                                    *)
(* ---------------------------------------------------------------------- *)

(* C23: p.get_direction(q) is a Direction2d whose reference is             *)
(* p.reference and whose vector is q.transform_to(p.reference) less        *)
(* p.coordinates; the position at p.coordinates plus that vector in        *)
(* p.reference compares equal to q, from either side.                      *)
C23_GetDirection ==
    call.op = "Position2d.get_direction"
        => LET q_in_p == transform_to(call.frame, call.self, call.arg)
               control == add(call.vector, call.ret[2])
           IN  /\ call.ret[1] = "Direction2d"
               /\ call.ret[3] = call.self
               /\ call.ret[2] = << q_in_p[1] - call.vector[1],
                                   q_in_p[2] - call.vector[2] >>
               /\ Position2d_eq(call.arg, call.frame, control, call.self)
                    = True
               /\ Position2d_eq(control, call.self, call.arg, call.frame)
                    = True

C23_Witness ==
    /\ call.op = "Position2d.get_direction"
    /\ unrelated(call.self, call.frame)
    /\ call.ret[2] # sub(call.arg, call.vector)
    /\ call.ret[2] # <<0, 0>>
    /\ as_rad(rotation[call.self]) # as_rad(rotation[call.frame])

(* ---------------------------------------------------------------------- *)
(* gtFrame.vector                                                          *)
(* ---------------------------------------------------------------------- *)

(* Frame2d.find_common_parent: a frame that lies on the chain of parents   *)
(* of both frames, each chain starting at the frame itself.  Which of      *)
(* them it is, is left to the caller of this definition.                   *)
find_common_parent(self, frame) ==
    {common \in frames \cup {origin2d} :
        /\ \E k \in 0..MaxFrames : ancestor(self, k) = common
        /\ \E k \in 0..MaxFrames : ancestor(frame, k) = common}

(* Vector2d.transform_to, for the vector (self_reference, coordinates) *)
Vector2d_transform_to(self_reference, coordinates, reference) ==
    transform_to(self_reference, reference, coordinates)

(* Vector2d.__add__, self + other, with the common frame that              *)
(* find_common_frame returned.                                             *)
Vector2d_add(self_reference, coordinates, other_reference, other_coordinates, common_frame) ==
    LET self_coordinates ==
            Vector2d_transform_to(self_reference, coordinates, common_frame)
        vector_coordinates ==
            Vector2d_transform_to(other_reference, other_coordinates,
                                  common_frame)
        resulting_coordinates == add(self_coordinates, vector_coordinates)
    IN  <<"Vector2d", self_reference,
          transform_from(self_reference, common_frame, resulting_coordinates)>>

(* Vector2d(self_reference, coordinates)                                   *)
(*     + Vector2d(other_reference, other_coordinates)                      *)
VectorAdd(self_reference, coordinates, other_reference, other_coordinates) ==
    /\ call = NoCall
    /\ walk = NoWalk
    /\ \E common_frame \in find_common_parent(self_reference, other_reference) :
            call' = [op |-> "Vector2d.__add__", self |-> self_reference,
                     frame |-> other_reference, vector |-> coordinates,
                     path |-> <<>>,
                     ret |-> Vector2d_add(self_reference, coordinates,
                                          other_reference, other_coordinates,
                                          common_frame),
                     arg |-> other_coordinates]
    /\ UNCHANGED <<frames, _parent, position, rotation, walk, caller>>

(* ---------------------------------------------------------------------- *)
(* C24                                                                    *)
(* ---------------------------------------------------------------------- *)

(* The vector taken from frame a to frame b as the tree stands. *)
taken(vector, a, b) ==
    after_steps(vector, path_between(a, b), Len(path_between(a, b)))

C25_SumThroughRoot ==
    (/\ call.op = "Vector2d.__add__"
     /\ call.frame \in frames
     /\ _parent[call.frame] = origin2d
     /\ \E k \in 0..MaxFrames : ancestor(call.self, k) = call.frame)
        => /\ call.ret[2] = call.self
           /\ call.ret[3] =
                taken(add(taken(call.vector, call.self, origin2d),
                          taken(call.arg, call.frame, origin2d)),
                      origin2d, call.self)

(* ---------------------------------------------------------------------- *)
(* Operands of any type                                                    *)
(* ---------------------------------------------------------------------- *)

(* The exception of an operation on a value of the wrong type. *)
TypeError == <<"TypeError">>

(* Python values as a method may be handed them: the name of the type and, *)
(* for a number or a string that reads as a number, that number.           *)
PlainInputs ==
    {<<"int", <<2>>>>, <<"str", <<2>>>>, <<"str", <<>>>>, <<"NoneType", <<>>>>}

(* Objects of the wrapper classes: the class and the attributes. *)
ObjectInputs ==
    {<<"Position2d", <<1, 0>>, origin2d>>, <<"Direction2d", <<1, 0>>, origin2d>>,
     <<"Position3d", <<1, 2, 3>>, origin3d>>,
     <<"Direction3d", <<1, 2, 3>>, origin3d>>}

(* float(value): the number itself, the number a string reads as,          *)
(* ValueError for a string that reads as none, TypeError for anything      *)
(* else.                                                                   *)
float(value) ==
    IF value[1] \in {"int", "float"} THEN <<"float", value[2][1]>>
    ELSE IF value[1] = "str"
         THEN IF value[2] = <<>> THEN ValueError ELSE <<"float", value[2][1]>>
         ELSE TypeError

(* vector * factor *)
times(vector, factor) == [i \in 1..Len(vector) |-> vector[i] * factor]

(* Direction2d.__eq__, self == other, for any value other *)
Direction2d_eq(vector, self_reference, other) ==
    IF other[1] # "Direction2d"
    THEN TypeError
    ELSE allclose(vector,
                  Direction2d_transform_to(other[2], other[3], self_reference))

(* Direction2d.__mul__, self * other: the exception or the new object *)
Direction2d_mul(vector, self_reference, other) ==
    IF float(other) \in {ValueError, TypeError}
    THEN float(other)
    ELSE Direction2d(times(vector, float(other)[2]), self_reference)

(* Direction2d.scale(factor): the exception or None *)
Direction2d_scale(vector, self_reference, factor) ==
    IF float(factor) \in {ValueError, TypeError} THEN float(factor) ELSE None

(* Direction2d.scale(factor): self.vector after the call *)
Direction2d_scale_vector(vector, self_reference, factor) ==
    IF float(factor) \in {ValueError, TypeError}
    THEN vector
    ELSE times(vector, float(factor)[2])

(* Position2d.__eq__, self == other, for any value other: the method      *)
(* looks up other.transform_to without a test of the type.                 *)
Position2d_eq_value(coordinates, self_reference, other) ==
    IF other[1] = "Position2d"
    THEN Position2d_eq(coordinates, self_reference, other[2], other[3])
    ELSE IF other[1] = "Direction2d"
    THEN allclose(coordinates,
                  Direction2d_transform_to(other[2], other[3],
                                           self_reference))
    ELSE AttributeError

(* Position2d(coordinates, self_reference) == value.  A Position3d is not  *)
(* among the values: what its transform_to does with a Frame2d is decided  *)
(* in Frame3d.                                                             *)
PositionEqValue(coordinates, self_reference, value) ==
    /\ call = NoCall
    /\ walk = NoWalk
    /\ value[1] # "Position3d"
    /\ call' = [op |-> "Position2d == value", self |-> self_reference,
                frame |-> origin2d, vector |-> coordinates, path |-> value,
                ret |-> Position2d_eq_value(coordinates, self_reference, value),
                arg |-> coordinates]
    /\ UNCHANGED <<frames, _parent, position, rotation, walk, caller>>

(* Direction2d(vector, self_reference) == value *)
DirectionEqValue(vector, self_reference, value) ==
    /\ call = NoCall
    /\ walk = NoWalk
    /\ call' = [op |-> "Direction2d == value", self |-> self_reference,
                frame |-> origin2d, vector |-> vector, path |-> value,
                ret |-> Direction2d_eq(vector, self_reference, value),
                arg |-> vector]
    /\ UNCHANGED <<frames, _parent, position, rotation, walk, caller>>

(* Direction2d(vector, self_reference) * value *)
DirectionMul(vector, self_reference, value) ==
    /\ call = NoCall
    /\ walk = NoWalk
    /\ call' = [op |-> "Direction2d.__mul__", self |-> self_reference,
                frame |-> origin2d, vector |-> vector, path |-> value,
                ret |-> Direction2d_mul(vector, self_reference, value),
                arg |-> vector]
    /\ UNCHANGED <<frames, _parent, position, rotation, walk, caller>>

(* Direction2d(vector, self_reference).scale(value) *)
DirectionScale(vector, self_reference, value) ==
    /\ call = NoCall
    /\ walk = NoWalk
    /\ call' = [op |-> "Direction2d.scale", self |-> self_reference,
                frame |-> origin2d, vector |-> vector, path |-> value,
                ret |-> Direction2d_scale(vector, self_reference, value),
                arg |-> Direction2d_scale_vector(vector, self_reference,
                                                 value)]
    /\ UNCHANGED <<frames, _parent, position, rotation, walk, caller>>

(* ---------------------------------------------------------------------- *)
(* C26                                                                    *)
(* ---------------------------------------------------------------------- *)

(* C26: a Position2d compared with anything but a Position2d, a            *)
(* Direction2d compared with anything but a Direction2d (a Direction3d     *)
(* included), and a Direction2d scaled, by scale or by *, with anything    *)
(* but a number, raises TypeError and keeps its vector as it was.          *)
C26_TypeMismatchRejected ==
    (\/ call.op = "Position2d == value" /\ call.path[1] # "Position2d"
     \/ call.op = "Direction2d == value" /\ call.path[1] # "Direction2d"
     \/ /\ call.op \in {"Direction2d.__mul__", "Direction2d.scale"}
        /\ call.path[1] \notin {"int", "float"})
        => call.ret = TypeError /\ call.arg = call.vector

(* ---------------------------------------------------------------------- *)
(* The wrapper classes over a tree of frames                               *)
(* ---------------------------------------------------------------------- *)

NextWrapper ==
    \/ \E input \in FrameInputs, parent_frame \in frames \cup {origin2d} :
            NewFrame(input[1], input[2], parent_frame)
    \/ \E vector \in VectorInputs, self_reference \in frames \cup {origin2d},
          reference \in frames \cup {origin2d} :
            DirectionTransformTo(vector, self_reference, reference)
    \/ \E coordinates \in CoordinateVectors,
          frame_a \in frames, frame_b \in frames :
            PositionEqAcrossFrames(coordinates, frame_a, frame_b)
    \/ \E coordinates \in CoordinateVectors,
          self_reference \in frames \cup {origin2d},
          other_coordinates \in CoordinateVectors,
          other_reference \in frames \cup {origin2d} :
            PositionGetDirection(coordinates, self_reference,
                                 other_coordinates, other_reference)
    \/ \E self_reference \in frames \cup {origin2d},
          coordinates \in CoordinateVectors,
          other_reference \in frames \cup {origin2d},
          other_coordinates \in CoordinateVectors :
            VectorAdd(self_reference, coordinates,
                      other_reference, other_coordinates)
    \/ \E coordinates \in CoordinateVectors,
          self_reference \in frames \cup {origin2d},
          value \in PlainInputs \cup ObjectInputs :
            PositionEqValue(coordinates, self_reference, value)
    \/ \E vector \in CoordinateVectors,
          self_reference \in frames \cup {origin2d},
          value \in PlainInputs \cup ObjectInputs :
            DirectionEqValue(vector, self_reference, value)
    \/ \E vector \in CoordinateVectors,
          self_reference \in frames \cup {origin2d},
          value \in PlainInputs \cup ObjectInputs :
            DirectionMul(vector, self_reference, value)
    \/ \E vector \in CoordinateVectors,
          self_reference \in frames \cup {origin2d},
          value \in PlainInputs \cup ObjectInputs :
            DirectionScale(vector, self_reference, value)
    \/ Return

SpecWrapper == Init /\ [][NextWrapper]_vars

(* ---------------------------------------------------------------------- *)
(* Paths and the transformations along them                                *)
(* ---------------------------------------------------------------------- *)

(* b.transform_to(c, a.transform_to(b, vector)): the vector is taken from  *)
(* a to c by way of b.                                                     *)
TransformToTwice(a, b, c, vector) ==
    /\ call = NoCall
    /\ walk = NoWalk
    /\ call' = [op |-> "transform_to twice", self |-> a, frame |-> c,
                vector |-> vector,
                path |-> find_transform_path(a, b)
                         \o find_transform_path(b, c),
                ret |-> transform_to(b, c, transform_to(a, b, vector)),
                arg |-> vector]
    /\ UNCHANGED <<frames, _parent, position, rotation, walk, caller>>

NextPath ==
    \/ \E input \in FrameInputs, parent_frame \in frames \cup {origin2d} :
            NewFrame(input[1], input[2], parent_frame)
    \/ \E self \in frames, frame \in frames \cup {origin2d} :
            FindTransformPath(self, frame)
    \/ \E frame \in frames \cup {origin2d} : RootFindTransformPath(frame)
    \/ \E self \in frames, frame \in frames \cup {origin2d},
          vector \in VectorInputs : TransformTo(self, frame, vector)
    \/ \E a \in frames \cup {origin2d}, b \in frames \cup {origin2d},
          c \in frames \cup {origin2d}, vector \in VectorInputs :
            TransformToTwice(a, b, c, vector)
    \/ Return

SpecPath == Init /\ [][NextPath]_vars

(* ---------------------------------------------------------------------- *)
(* C27                                                                    *)
(* ---------------------------------------------------------------------- *)

(* The deepest frame on the chains of parents of both a and b. *)
nearest_common_ancestor(a, b) ==
    CHOOSE c \in find_common_parent(a, b) :
        \A d \in find_common_parent(a, b) : depth(d) <= depth(c)

(* Up from a to the nearest common ancestor and down from there to b. *)
minimal_path(a, b) ==
    up_chain(a, nearest_common_ancestor(a, b), "to")
    \o down_chain(nearest_common_ancestor(a, b), b, "from")

(* C27: for two frames that meet at a frame below origin2d, neither being  *)
(* above the other, find_transform_path gives the longer path by way of    *)
(* origin2d, and the vector transform_to returns, folded through that      *)
(* path, is the vector folded through the path that turns round at the     *)
(* frame where they meet.                                                  *)
C27_NonMinimalPathEquivalent ==
    (/\ call.op = "transform_to"
     /\ unrelated(call.self, call.frame)
     /\ nearest_common_ancestor(call.self, call.frame) # origin2d)
        => LET full == find_transform_path(call.self, call.frame)
               minimal == minimal_path(call.self, call.frame)
           IN  /\ full = up_chain(call.self, origin2d, "to")
                         \o down_chain(origin2d, call.frame, "from")
               /\ Len(full) > Len(minimal)
               /\ call.ret = after_steps(call.vector, full, Len(full))
               /\ call.ret = after_steps(call.vector, minimal, Len(minimal))

C27_Witness ==
    /\ call.op = "transform_to"
    /\ unrelated(call.self, call.frame)
    /\ nearest_common_ancestor(call.self, call.frame) # origin2d
    /\ as_rad(rotation[nearest_common_ancestor(call.self, call.frame)]) = 1
    /\ call.ret # call.vector

(* ---------------------------------------------------------------------- *)
(* C28                                                                    *)
(* ---------------------------------------------------------------------- *)

(* C28: a path find_transform_path returns is a run of "to" steps followed *)
(* by a run of "from" steps, either of which may be empty; each "to" step  *)
(* after the first is at the parent of the step before it, each "from"     *)
(* step after the first is at a child of the step before it; the first     *)
(* "to" step is at self and the last "from" step is at the destination;    *)
(* origin2d is in no step and no step occurs twice.                        *)
C28_PathWellFormed ==
    found_path
        => LET p == call.ret
               n == Len(call.ret)
           IN  /\ \E k \in 0..n :
                    /\ \A i \in 1..k : p[i][2] = "to"
                    /\ \A i \in (k + 1)..n : p[i][2] = "from"
                    /\ \A i \in 1..(k - 1) : p[i + 1][1] = _parent[p[i][1]]
                    /\ \A i \in (k + 1)..(n - 1) : _parent[p[i + 1][1]] = p[i][1]
                    /\ k >= 1 => p[1][1] = call.self
                    /\ k < n => p[n][1] = call.frame
               /\ \A i \in 1..n : p[i][1] # origin2d
               /\ \A i, j \in 1..n : i # j => p[i] # p[j]

C28_Witness ==
    /\ found_path
    /\ Len(call.ret) = 4
    /\ call.ret[2][2] = "to"
    /\ call.ret[3][2] = "from"
    /\ call.ret[2][1] = call.ret[3][1]

(* ---------------------------------------------------------------------- *)
(* C29                                                                    *)
(* ---------------------------------------------------------------------- *)

(* The path read from its end, every "to" a "from" and every "from" a "to". *)
turned_round(path) ==
    [i \in 1..Len(path) |->
        <<path[Len(path) + 1 - i][1],
          IF path[Len(path) + 1 - i][2] = "to" THEN "from" ELSE "to">>]

(* C29: for frames a and b other than origin2d, b.find_transform_path(a)   *)
(* is a.find_transform_path(b) read from its end with every direction      *)
(* exchanged.                                                              *)
C29_PathReversal ==
    (found_path /\ call.self \in frames /\ call.frame \in frames)
        => find_transform_path(call.frame, call.self) = turned_round(call.ret)

C29_Witness ==
    /\ found_path
    /\ is_strict_ancestor(call.self, call.frame)
    /\ Len(call.ret) = 2
    /\ call.self # origin2d

(* ---------------------------------------------------------------------- *)
(* C30                                                                    *)
(* ---------------------------------------------------------------------- *)

(* C30: b.transform_to(c, a.transform_to(b, v)) is a.transform_to(c, v),   *)
(* the vector v taken along the path from a to c, whatever frame b is.     *)
C30_Transitivity ==
    call.op = "transform_to twice"
        => /\ call.ret = transform_to(call.self, call.frame, call.vector)
           /\ call.ret = taken(call.vector, call.self, call.frame)

C30_Witness ==
    /\ call.op = "transform_to twice"
    /\ call.self # call.frame
    /\ Len(call.path) > Len(path_between(call.self, call.frame)) + 2
    /\ call.ret # call.vector
    /\ \E i \in 1..Len(call.path) :
            /\ call.path[i][1] \notin {call.self, call.frame}
            /\ \A j \in 1..Len(path_between(call.self, call.frame)) :
                    path_between(call.self, call.frame)[j][1] # call.path[i][1]

====
